---- MODULE Spec2Model ----
(***************************************************************************)
(* Model of the access-token cache, the token refresher and the            *)
(* authenticated fetcher of src/server.js, together with the handler       *)
(* tasks that use them.  Time is Date.now() in milliseconds.               *)
(*                                                                         *)
(* An action is one turn of the event loop: the JavaScript that runs from  *)
(* the arrival of a request or of a network response up to the next        *)
(* network wait, with the promise continuations it schedules (they run     *)
(* before any other network event is delivered).  The head and the body of *)
(* a token response, and the head and the body of a create request, arrive *)
(* in different turns.  The token endpoint names the tokens it issues      *)
(* 1, 2, 3, ...                                                            *)
(***************************************************************************)
EXTENDS Integers, Sequences, FiniteSets, TLC

\* ------------------------------------------------------------------ bounds
MaxCalls == 2
MaxTicks == 1

Tasks == {1, 2}
\* the tasks whose calls have their history recorded; the other tasks run the
\* same code as concurrent load
Observed == {1}

\* ------------------------------------------------------- program constants
DefaultExpiresIn == 3600
BufferSeconds == 60
MsPerSecond == 1000
Unauthorized == 401

\* ------------------------------------------------------------ environment
Null == <<>>
TickMs == 60 * MsPerSecond
FetchHandlers == {"list", "tabs"}
ApiStatuses == {200, 401, 500}
TokenErrorStatuses == {400}
\* await res.text() of a non-success token response
TokenErrorBodies == {"", "invalid_grant"}
\* the text of a success response that is JSON without access_token, of one
\* that is the JSON value null, and of one that is not JSON
JsonNoToken == "{}"
JsonNull == "null"
NotJson == "<html>oops</html>"
\* json.expires_in as the server may send it: omitted (Null) or a number
ExpiresInValues == {Null, <<0>>, <<30>>, <<120>>}

\* DRIVE_FILES_ENDPOINT and SHEETS_META_ENDPOINT(spreadsheetId)
Url(h) == IF h = "list" THEN "drive/v3/files" ELSE "v4/spreadsheets/id"

\* the create handler's request: its URL, method, body and Content-Type header
CreateUrl == "v4/spreadsheets"
CreateOpts == [method |-> "POST", body |-> "spreadsheetData",
               headers |-> [k \in {"content-type"} |-> "application/json"]]

VARIABLES
    tokenCache,  \* the process-wide { accessToken, expiresAt }
    now,         \* Date.now()
    creds,       \* which of the three credentials the environment sets
    issued,      \* tokens the token endpoint has issued so far
    calls,       \* handler calls started so far
    granted,     \* the last successful token response and when it completed
    task         \* per handler task: where it is suspended, its locals, its history

vars == <<tokenCache, now, creds, issued, calls, granted, task>>

\* ---------------------------------------------------------------- helpers
\* fetchGoogle's default opts = {}: no method, no body, no headers
NoOpts == [method |-> Null, body |-> Null, headers |-> <<>>]
NoRequest == [url |-> "", method |-> Null, body |-> Null, headers |-> <<>>]
Ev(ev, tok, n, f) == [ev |-> ev, tok |-> tok, n |-> n, f |-> f, body |-> ""]
NoResult == [what |-> "none", status |-> 0, err |-> "", body |-> ""]
Response(st) == [what |-> "response", status |-> st, err |-> "", body |-> ""]
Thrown(e, st) == [what |-> "error", status |-> st, err |-> e, body |-> ""]

\* new Error(`Token refresh failed: ${res.status} ${txt}`)
UpstreamError(st, txt) == [Thrown("upstream", st) EXCEPT !.body = txt]
NoGrant == [tok |-> Null, expires_in |-> Null, at |-> 0]
EmptyCache == [accessToken |-> Null, expiresAt |-> 0]

\* pc: idle | req_body (the create handler awaiting the body of its request) |
\* rt_fetch (awaiting the head of the token response) | rt_body (awaiting its
\* body, res being the status of the head) | api_wait (awaiting the Google API)
\* | done | failed.  kind: the call goes through fetchGoogle or is
\* the create handler's own.  url, opts, retry, token: fetchGoogle's
\* parameters and local.  req: the request to the Google API that is in flight.
\* rctx: who awaits the running refreshAccessToken ("get": getAccessToken,
\* "forced": fetchGoogle after a 401).  log: what this call did so far.
\* A local that the code no longer reads (the token of a finished attempt, the
\* parameters of a returned frame) is reset to its initial value.
IdleTask(t) == [obs |-> t \in Observed, pc |-> "idle", kind |-> "fetchGoogle",
                url |-> "", opts |-> NoOpts, req |-> NoRequest, res |-> 0,
                retry |-> FALSE, token |-> Null, rctx |-> "get", log |-> <<>>,
                result |-> NoResult]

Ok(st) == st >= 200 /\ st <= 299

CredsConfigured == creds.clientId /\ creds.clientSecret /\ creds.refreshToken

\* the test with the boundary instant counted as unexpired
CacheUsableInclusive(cache) == cache.accessToken # Null /\ now <= cache.expiresAt

\* getAccessToken's test
CacheUsable(cache) == cache.accessToken # Null /\ now < cache.expiresAt

\* Number(json.expires_in || 3600)
ExpiresIn(v) == IF v = Null \/ v[1] = 0 THEN DefaultExpiresIn ELSE v[1]

\* Date.now() + (expiresIn - 60) * 1000
ExpiresAt(t0, expiresIn) == t0 + (expiresIn - BufferSeconds) * MsPerSecond

\* a retry on every error status
ShouldRetryAnyError(st, r) == st >= 400 /\ r

\* a retry on every 401, whatever the retry parameter
ShouldRetryIgnoringFlag(st, r) == st = Unauthorized

\* res.status === 401 && retry
ShouldRetry(st, r) == st = Unauthorized /\ r

\* the head with only the client id checked
RefreshHeadClientIdOnly(cache) ==
    IF ~creds.clientId THEN "throw"
    ELSE IF now < cache.expiresAt THEN "cached"
    ELSE "post"

\* The head of refreshAccessToken, up to its first await: "throw" on missing
\* credentials, "cached" on its own early return, "post" when it sends the
\* request to the token endpoint.
RefreshHead(cache) ==
    IF ~CredsConfigured THEN "throw"
    ELSE IF now < cache.expiresAt THEN "cached"
    ELSE "post"

\* the tasks whose request to the token endpoint is in flight
InFlight == {t \in Tasks : task[t].pc \in {"rt_fetch", "rt_body"}}

\* a caller that takes whatever the cache holds while a request is in flight
GetAccessTokenSingleFlight(cache) ==
    IF CacheUsable(cache) \/ InFlight # {} THEN "hit" ELSE RefreshHead(cache)

\* getAccessToken: "hit" when it returns the cached token itself
GetAccessTokenOutcome(cache) ==
    IF CacheUsable(cache) THEN "hit" ELSE RefreshHead(cache)

\* the history is instrumentation: it is kept for the observed tasks only
Logged(s, e) == IF s.obs THEN [s EXCEPT !.log = Append(@, e)] ELSE s

\* a fetchGoogle that catches the failure of the refresh made after a 401 and
\* returns that 401 response
ThrowCaughtAfter401(s, r, st, txt) ==
    LET c == Logged(s, [Ev("refresh_fail", Null, st, s.rctx = "forced") EXCEPT !.body = txt])
    IN  IF s.rctx = "forced"
        THEN [c EXCEPT !.pc = "done", !.result = Response(Unauthorized), !.token = Null,
                       !.retry = FALSE, !.rctx = "get", !.url = "", !.res = 0]
        ELSE [c EXCEPT !.pc = "failed", !.result = r, !.token = Null,
                       !.retry = FALSE, !.rctx = "get", !.url = "", !.res = 0]

\* a throw of r out of refreshAccessToken: nothing in getAccessToken or
\* fetchGoogle catches it.  The history keeps the token response the refresh
\* had received: its status st (0 when none was received in full) and its
\* text txt.
Throw(s, r, st, txt) ==
    [Logged(s, [Ev("refresh_fail", Null, st, s.rctx = "forced") EXCEPT !.body = txt])
        EXCEPT !.pc = "failed", !.result = r, !.token = Null,
               !.retry = FALSE, !.rctx = "get", !.url = "", !.req = NoRequest, !.res = 0]

\* a throw before any response: missing credentials, or fetch rejecting
Fail(s, e, st) == Throw(s, Thrown(e, st), st, "")

\* fetch(TOKEN_ENDPOINT, ...) is sent
Post(s, ctx) ==
    [Logged(s, Ev("exchange_sent", Null, 0, ctx = "forced"))
        EXCEPT !.pc = "rt_fetch", !.rctx = ctx, !.token = Null, !.req = NoRequest]

\* `Bearer ${token}`
Bearer(tok) == <<"Bearer">> \o tok

\* new Headers(h) with set(name, v) applied: the other headers stay
SetHeader(h, name, v) ==
    [k \in DOMAIN h \cup {name} |-> IF k = name THEN v ELSE h[k]]

\* the request with the bare token as its Authorization header
RequestBareToken(url, opts, tok) ==
    [url |-> url, method |-> opts.method, body |-> opts.body,
     headers |-> SetHeader(opts.headers, "authorization", tok)]

\* const headers = new Headers(opts.headers || {});
\* headers.set('Authorization', `Bearer ${token}`); fetch(url, { ...opts, headers })
Request(url, opts, tok) ==
    [url |-> url, method |-> opts.method, body |-> opts.body,
     headers |-> SetHeader(opts.headers, "authorization", Bearer(tok))]

\* fetchGoogle sends its request; the create handler's own fetch is sent with
\* the same header
Send(s, tok) ==
    [Logged(s, Ev("attempt", tok, 0, s.retry))
        EXCEPT !.pc = "api_wait", !.token = tok, !.req = Request(s.url, s.opts, tok)]

\* return res
Return(s, st) ==
    [s EXCEPT !.pc = "done", !.result = Response(st), !.token = Null, !.retry = FALSE,
              !.url = "", !.req = NoRequest]

\* const token = await getAccessToken(); ...; await fetch(...): up to the first
\* network wait
ObtainToken(s, cache) ==
    LET o == GetAccessTokenOutcome(cache)
        c == Logged(s, Ev("refresh_call", Null, 0, FALSE))
    IN  CASE o = "hit" -> Send(Logged(s, Ev("get_hit", cache.accessToken, 0, FALSE)),
                               cache.accessToken)
          [] o = "throw" -> Fail([c EXCEPT !.rctx = "get"], "config", 0)
          [] o = "cached" -> Send(Logged(c, Ev("refresh_hit", cache.accessToken, 0, FALSE)),
                                  cache.accessToken)
          [] OTHER -> Post(c, "get")

\* the recursive call made with retry left as it was
RetryCallKeepsRetry(s, cache) == ObtainToken(s, cache)

\* return fetchGoogle(url, opts, false)
RetryCall(s, cache) == ObtainToken([s EXCEPT !.retry = FALSE], cache)

\* await refreshAccessToken(); return fetchGoogle(url, opts, false)
ForcedRefresh(s, cache) ==
    LET o == RefreshHead(cache)
        c == Logged(s, Ev("refresh_call", Null, 0, TRUE))
    IN  CASE o = "throw" -> Fail([c EXCEPT !.rctx = "forced"], "config", 0)
          [] o = "cached" ->
                RetryCall(Logged(c, Ev("refresh_hit", cache.accessToken, 0, TRUE)), cache)
          [] OTHER -> Post(c, "forced")

\* the caller going on with the token it held before the refresh
RefreshDoneStaleToken(s, cache, tok) ==
    LET c == Logged(s, Ev("refresh_ok", tok, 0, s.rctx = "forced")) IN
    IF s.rctx = "get" THEN Send(c, s.token) ELSE RetryCall([c EXCEPT !.rctx = "get"], cache)

\* refreshAccessToken returns tok, the cache being the one it has just written
RefreshDone(s, cache, tok) ==
    LET c == Logged(s, Ev("refresh_ok", tok, 0, s.rctx = "forced")) IN
    IF s.rctx = "get" THEN Send(c, tok) ELSE RetryCall([c EXCEPT !.rctx = "get"], cache)

\* ------------------------------------------------------------------- Init
Init ==
    /\ tokenCache = EmptyCache
    /\ now = 0
    /\ creds \in [clientId : BOOLEAN, clientSecret : BOOLEAN, refreshToken : BOOLEAN]
    /\ issued = 0
    /\ calls = 0
    /\ granted = NoGrant
    /\ task = [t \in Tasks |-> IdleTask(t)]

\* ---------------------------------------------------------------- actions
\* GET /api/spreadsheets and GET /api/spreadsheets/:id/tabs: fetchGoogle(url)
StartFetchGoogle(t, h) ==
    /\ task[t].pc = "idle"
    /\ h \in FetchHandlers
    /\ calls < MaxCalls
    /\ calls' = calls + 1
    /\ task' = [task EXCEPT ![t] =
                   ObtainToken([IdleTask(t) EXCEPT !.retry = TRUE, !.url = Url(h)], tokenCache)]
    /\ UNCHANGED <<tokenCache, now, creds, issued, granted>>

\* POST /api/spreadsheets/create arrives: await readJsonBody(req)
StartCreate(t) ==
    /\ task[t].pc = "idle"
    /\ calls < MaxCalls
    /\ calls' = calls + 1
    /\ task' = [task EXCEPT ![t] = [IdleTask(t) EXCEPT !.pc = "req_body", !.kind = "create"]]
    /\ UNCHANGED <<tokenCache, now, creds, issued, granted>>

\* the body of the request has ended: getAccessToken() and the handler's own fetch
CreateBodyEnd(t) ==
    /\ task[t].pc = "req_body"
    /\ task' = [task EXCEPT ![t] =
                   ObtainToken([task[t] EXCEPT !.url = CreateUrl, !.opts = CreateOpts],
                               tokenCache)]
    /\ UNCHANGED <<tokenCache, now, creds, issued, calls, granted>>

\* readJsonBody rejects (the body is not JSON, the request errs): the handler's
\* catch answers 500
CreateBodyReject(t) ==
    /\ task[t].pc = "req_body"
    /\ task' = [task EXCEPT ![t] = [@ EXCEPT !.pc = "failed", !.result = Thrown("request", 0)]]
    /\ UNCHANGED <<tokenCache, now, creds, issued, calls, granted>>

\* await fetch(TOKEN_ENDPOINT, ...) rejects
TokenFetchReject(t) ==
    /\ task[t].pc = "rt_fetch"
    /\ task' = [task EXCEPT ![t] = Fail(task[t], "transport", 0)]
    /\ UNCHANGED <<tokenCache, now, creds, issued, calls, granted>>

\* await fetch(TOKEN_ENDPOINT, ...) resolves with the head of the response;
\* the body is awaited (res.text() when !res.ok, res.json() otherwise)
TokenResponseHead(t, st) ==
    /\ task[t].pc = "rt_fetch"
    /\ task' = [task EXCEPT ![t] = [@ EXCEPT !.pc = "rt_body", !.res = st]]
    /\ UNCHANGED <<tokenCache, now, creds, issued, calls, granted>>

\* the body read rejects: "syntax" when res.json() is given a text that is not
\* JSON, "transport" when the connection fails before the body has ended
TokenBodyReject(t, e) ==
    /\ task[t].pc = "rt_body"
    /\ e \in {"syntax", "transport"}
    /\ e = "syntax" => Ok(task[t].res)
    /\ task' = [task EXCEPT ![t] =
                   IF e = "syntax"
                   THEN Throw(task[t], Thrown("syntax", 0), task[t].res, NotJson)
                   ELSE Fail(task[t], "transport", 0)]
    /\ UNCHANGED <<tokenCache, now, creds, issued, calls, granted>>

\* a failed refresh that drops the cached token
RefreshUpstreamErrorClearsCache(t, st, txt) ==
    /\ task[t].pc = "rt_body"
    /\ task[t].res = st
    /\ ~Ok(st)
    /\ task' = [task EXCEPT ![t] = Throw(task[t], UpstreamError(st, txt), st, txt)]
    /\ tokenCache' = EmptyCache
    /\ UNCHANGED <<now, creds, issued, calls, granted>>

\* if (!res.ok) throw new Error(`Token refresh failed: ${res.status} ${txt}`)
RefreshUpstreamError(t, st, txt) ==
    /\ task[t].pc = "rt_body"
    /\ task[t].res = st
    /\ ~Ok(st)
    /\ task' = [task EXCEPT ![t] = Throw(task[t], UpstreamError(st, txt), st, txt)]
    /\ UNCHANGED <<tokenCache, now, creds, issued, calls, granted>>

\* a refresh that does not test accessToken and caches what it was given
RefreshProtocolErrorUnchecked(t, st, tok) ==
    /\ task[t].pc = "rt_body"
    /\ task[t].res = st
    /\ Ok(st)
    /\ tok = Null
    /\ tokenCache' = [accessToken |-> tok, expiresAt |-> ExpiresAt(now, ExpiresIn(Null))]
    /\ task' = [task EXCEPT ![t] = RefreshDone([task[t] EXCEPT !.res = 0], tokenCache', tok)]
    /\ UNCHANGED <<now, creds, issued, calls, granted>>

\* if (!accessToken) throw new Error('No access_token in token response')
RefreshProtocolError(t, st, tok) ==
    /\ task[t].pc = "rt_body"
    /\ task[t].res = st
    /\ Ok(st)
    /\ tok = Null
    /\ task' = [task EXCEPT ![t] = Throw(task[t], Thrown("protocol", 0), st, JsonNoToken)]
    /\ UNCHANGED <<tokenCache, now, creds, issued, calls, granted>>

\* res.json() resolves with null: json.access_token throws a TypeError before
\* the test of accessToken is reached
RefreshNullBody(t, st) ==
    /\ task[t].pc = "rt_body"
    /\ task[t].res = st
    /\ Ok(st)
    /\ task' = [task EXCEPT ![t] = Throw(task[t], Thrown("type", 0), st, JsonNull)]
    /\ UNCHANGED <<tokenCache, now, creds, issued, calls, granted>>

\* a completing refresh that leaves a still usable cache as it is
RefreshSuccessKeepsUsable(t, st, tok, ei) ==
    /\ task[t].pc = "rt_body"
    /\ task[t].res = st
    /\ Ok(st)
    /\ tok # Null
    /\ issued' = issued + 1
    /\ tokenCache' = IF CacheUsable(tokenCache) THEN tokenCache
                      ELSE [accessToken |-> tok, expiresAt |-> ExpiresAt(now, ExpiresIn(ei))]
    /\ granted' = [tok |-> tok, expires_in |-> ei, at |-> now]
    /\ task' = [task EXCEPT ![t] = RefreshDone([task[t] EXCEPT !.res = 0], tokenCache', tok)]
    /\ UNCHANGED <<now, creds, calls>>

\* tokenCache = { accessToken, expiresAt }; return accessToken
RefreshSuccess(t, st, tok, ei) ==
    /\ task[t].pc = "rt_body"
    /\ task[t].res = st
    /\ Ok(st)
    /\ tok # Null
    /\ issued' = issued + 1
    /\ tokenCache' = [accessToken |-> tok, expiresAt |-> ExpiresAt(now, ExpiresIn(ei))]
    /\ granted' = [tok |-> tok, expires_in |-> ei, at |-> now]
    /\ task' = [task EXCEPT ![t] = RefreshDone([task[t] EXCEPT !.res = 0], tokenCache', tok)]
    /\ UNCHANGED <<now, creds, calls>>

\* fetchGoogle: the response arrives
ApiRespond(t, st) ==
    /\ task[t].pc = "api_wait"
    /\ task[t].kind = "fetchGoogle"
    /\ LET s == Logged(task[t], Ev("response", task[t].token, st,
                                   CacheUsable(tokenCache)
                                   /\ tokenCache.accessToken = task[t].token)) IN
       task' = [task EXCEPT ![t] =
                   IF ShouldRetry(st, s.retry)
                   THEN ForcedRefresh(s, tokenCache)
                   ELSE Return(s, st)]
    /\ UNCHANGED <<tokenCache, now, creds, issued, calls, granted>>

\* the create handler's fetch resolves: whatever the status, no refresh and no
\* retry follows
CreateRespond(t, st) ==
    /\ task[t].pc = "api_wait"
    /\ task[t].kind = "create"
    /\ task' = [task EXCEPT ![t] =
                   Return(Logged(task[t], Ev("response", task[t].token, st,
                                             CacheUsable(tokenCache)
                                             /\ tokenCache.accessToken = task[t].token)),
                          st)]
    /\ UNCHANGED <<tokenCache, now, creds, issued, calls, granted>>

\* fetch(url, ...) to the Google API rejects
ApiReject(t) ==
    /\ task[t].pc = "api_wait"
    /\ task' = [task EXCEPT ![t] =
                   [Logged(task[t], Ev("api_fail", task[t].token, 0, FALSE))
                       EXCEPT !.pc = "failed", !.result = Thrown("transport", 0),
                              !.token = Null, !.retry = FALSE, !.url = "",
                              !.req = NoRequest]]
    /\ UNCHANGED <<tokenCache, now, creds, issued, calls, granted>>

\* the handler has answered its client; the task takes the next request
Finish(t) ==
    /\ task[t].pc \in {"done", "failed"}
    /\ task' = [task EXCEPT ![t] = IdleTask(t)]
    /\ UNCHANGED <<tokenCache, now, creds, issued, calls, granted>>

\* the clock advances
Tick ==
    /\ now + TickMs <= MaxTicks * TickMs
    /\ now' = now + TickMs
    /\ UNCHANGED <<tokenCache, creds, issued, calls, granted, task>>

Next ==
    \/ \E t \in Tasks, h \in FetchHandlers : StartFetchGoogle(t, h)
    \/ \E t \in Tasks : StartCreate(t)
    \/ \E t \in Tasks : CreateBodyEnd(t)
    \/ \E t \in Tasks : CreateBodyReject(t)
    \/ \E t \in Tasks : TokenFetchReject(t)
    \/ \E t \in Tasks, st \in TokenErrorStatuses \cup {200} : TokenResponseHead(t, st)
    \/ \E t \in Tasks, e \in {"syntax", "transport"} : TokenBodyReject(t, e)
    \/ \E t \in Tasks, st \in TokenErrorStatuses, txt \in TokenErrorBodies :
          RefreshUpstreamError(t, st, txt)
    \/ \E t \in Tasks : RefreshProtocolError(t, 200, Null)
    \/ \E t \in Tasks : RefreshNullBody(t, 200)
    \/ \E t \in Tasks, ei \in ExpiresInValues : RefreshSuccess(t, 200, <<issued + 1>>, ei)
    \/ \E t \in Tasks, st \in ApiStatuses : ApiRespond(t, st)
    \/ \E t \in Tasks, st \in ApiStatuses : CreateRespond(t, st)
    \/ \E t \in Tasks : ApiReject(t)
    \/ \E t \in Tasks : Finish(t)
    \/ Tick

Spec == Init /\ [][Next]_vars

\* ------------------------------------------------- the calls to completion
\* The request to the token endpoint, and the request to the Google API, that
\* task t awaits goes on: the head and then the body of a response arrive, or
\* there is a transport error.
TokenRequestCompletes(t) ==
    \/ TokenFetchReject(t)
    \/ \E st \in TokenErrorStatuses \cup {200} : TokenResponseHead(t, st)
    \/ \E e \in {"syntax", "transport"} : TokenBodyReject(t, e)
    \/ \E st \in TokenErrorStatuses, txt \in TokenErrorBodies : RefreshUpstreamError(t, st, txt)
    \/ RefreshProtocolError(t, 200, Null)
    \/ RefreshNullBody(t, 200)
    \/ \E ei \in ExpiresInValues : RefreshSuccess(t, 200, <<issued + 1>>, ei)

ApiRequestCompletes(t) ==
    \/ \E st \in ApiStatuses : ApiRespond(t, st)
    \/ \E st \in ApiStatuses : CreateRespond(t, st)
    \/ ApiReject(t)

\* Each task serves one request, concurrently with the other tasks, and every
\* request it sends is eventually completed.
NextToCompletion ==
    \/ \E t \in Tasks, h \in FetchHandlers : StartFetchGoogle(t, h)
    \/ \E t \in Tasks : StartCreate(t)
    \/ \E t \in Tasks : CreateBodyEnd(t)
    \/ \E t \in Tasks : CreateBodyReject(t)
    \/ \E t \in Tasks : TokenRequestCompletes(t)
    \/ \E t \in Tasks : ApiRequestCompletes(t)
    \/ Tick

FairSpec ==
    /\ Init
    /\ [][NextToCompletion]_vars
    /\ \A t \in Tasks : WF_vars(TokenRequestCompletes(t)) /\ WF_vars(ApiRequestCompletes(t))

\* ------------------------------------------------------- reading a history
\* the step in which the handler of task t makes its first call of
\* getAccessToken: at the arrival of a GET request, at the end of the body of a
\* create request
CallsGetAccessToken(t) ==
    \/ task[t].pc = "idle" /\ task'[t].pc \notin {"idle", "req_body"}
    \/ /\ task[t].pc = "req_body"
       /\ task'[t].pc # "req_body"
       /\ task'[t].result # Thrown("request", 0)

Log(t) == task[t].log
Events(t, e) == {i \in 1..Len(Log(t)) : Log(t)[i].ev = e}
Attempts(t) == Events(t, "attempt")
FetchCalls == {t \in Observed : task[t].kind = "fetchGoogle"}
\* the responses with status 401 to an attempt made with retry allowed
Retried401(t) ==
    {i \in Events(t, "response") :
        Log(t)[i].n = Unauthorized /\ Log(t)[i - 1].ev = "attempt" /\ Log(t)[i - 1].f}
\* the events of kind e strictly between positions i and j
Between(t, e, i, j) == {k \in Events(t, e) : i < k /\ k < j}

\* ------------------------------------------------------------------ claims

\* C1: a 401 to a first attempt whose token the cache still holds as valid is
\* followed by a new token exchange (the cache check is bypassed), and the
\* retried attempt carries the token of that exchange, not the first attempt's.
C1_ForcedExchangeAfter401 ==
    \A t \in FetchCalls : \A i \in Retried401(t) :
        Log(t)[i].f =>
            /\ Log(t)[i + 1].ev = "refresh_call"
            /\ Log(t)[i + 2].ev = "exchange_sent"
            /\ \A j \in Attempts(t) : j > i =>
                  /\ Log(t)[j].tok # Log(t)[i].tok
                  /\ \E k \in Between(t, "refresh_ok", i, j) :
                        Log(t)[k].f /\ Log(t)[k].tok = Log(t)[j].tok

\* C2: after a 401 to an attempt with retry allowed there is exactly one more
\* token exchange and one retried attempt, whatever the cache holds and whatever
\* expires_in the exchange returns; a 401 to the retried attempt is returned.
C2_OneExchangeOneRetry ==
    \A t \in FetchCalls : \A i \in Retried401(t) :
        /\ Cardinality({k \in Events(t, "exchange_sent") : k > i}) <= 1
        /\ Cardinality({j \in Attempts(t) : j > i}) <= 1
        /\ \A j \in Attempts(t) : j > i =>
              /\ Cardinality(Between(t, "exchange_sent", i, j)) = 1
              /\ \A r \in Events(t, "response") :
                    (r > j /\ Log(t)[r].n = Unauthorized) =>
                        /\ r = Len(Log(t))
                        /\ task[t].pc = "done"
                        /\ task[t].result = Response(Unauthorized)

\* C3: a fetchGoogle call issues at most two requests to the Google API; the
\* second is issued only when the first was made with retry allowed and was
\* answered 401, and after the refreshAccessToken call that follows has returned.
C3_AtMostTwoAttempts ==
    \A t \in FetchCalls :
        /\ Cardinality(Attempts(t)) <= 2
        /\ \A i, j \in Attempts(t) : i < j =>
              /\ Log(t)[i].f
              /\ Log(t)[i + 1].ev = "response"
              /\ Log(t)[i + 1].n = Unauthorized
              /\ \E k \in Between(t, "refresh_ok", i + 1, j)
                          \cup Between(t, "refresh_hit", i + 1, j) : Log(t)[k].f

C3_Witness ==
    \E t \in FetchCalls : Cardinality(Attempts(t)) = 2

\* C4: a call's getAccessToken returns the cached token, sending nothing to the
\* token endpoint and leaving the cache as it is, exactly when a token is held
\* and now < expiresAt; otherwise it goes to refreshAccessToken, which sends the
\* token request or throws.
C4_CacheReadRule ==
    [][\A t \in Tasks :
          CallsGetAccessToken(t) =>
              /\ (/\ task'[t].pc = "api_wait"
                  /\ task'[t].token = tokenCache.accessToken
                  /\ tokenCache' = tokenCache
                  /\ issued' = issued)
                 <=> (tokenCache.accessToken # Null /\ now < tokenCache.expiresAt)
              /\ ~(tokenCache.accessToken # Null /\ now < tokenCache.expiresAt)
                    => task'[t].pc \in {"rt_fetch", "failed"}]_vars

C4_Witness ==
    \E t \in Observed :
        /\ Len(Log(t)) >= 1
        /\ Log(t)[1].ev = "get_hit"
        /\ Log(t)[1].tok = tokenCache.accessToken
        /\ now > 0

\* C5: with the three credentials set, every call of refreshAccessToken sends
\* one request to the token endpoint, whatever the cache holds, and ends on that
\* request's outcome without sending another.
C5_OneRequestPerRefresh ==
    CredsConfigured =>
        \A t \in Observed : \A i \in Events(t, "refresh_call") :
            /\ Log(t)[i + 1].ev = "exchange_sent"
            /\ i + 2 <= Len(Log(t)) => Log(t)[i + 2].ev \in {"refresh_ok", "refresh_fail"}

\* C6: a fetchGoogle call that finds no usable token (the empty cache of the
\* initial state included) sends one token request before its first request to
\* the Google API, which is issued after that exchange has completed and carries
\* the token it returned.
C6_RefreshBeforeFirstAttempt ==
    \A t \in FetchCalls :
        (Len(Log(t)) >= 1 /\ Log(t)[1].ev = "refresh_call") =>
            /\ Len(Log(t)) >= 2
            /\ Log(t)[2].ev \in {"exchange_sent", "refresh_fail"}
            /\ \A j \in Attempts(t) : (\A i \in Attempts(t) : j <= i) =>
                  /\ j = 4
                  /\ Log(t)[2].ev = "exchange_sent"
                  /\ Log(t)[3].ev = "refresh_ok"
                  /\ Log(t)[3].tok # Null
                  /\ Log(t)[4].tok = Log(t)[3].tok

\* the first call of the run, made on the empty cache, has sent its request
C6_Witness ==
    \E t \in FetchCalls :
        /\ calls = 1
        /\ issued = 1
        /\ task[t].pc = "api_wait"
        /\ Len(Log(t)) = 4
        /\ Log(t)[4].ev = "attempt"

\* C7: a response whose status is not 401, or a 401 to an attempt made with
\* retry disallowed, is what fetchGoogle returns: no refresh and no further
\* attempt follows it.
C7_OtherStatusReturned ==
    \A t \in FetchCalls : \A i \in Events(t, "response") :
        (Log(t)[i].n # Unauthorized \/ ~Log(t)[i - 1].f) =>
            /\ i = Len(Log(t))
            /\ task[t].pc = "done"
            /\ task[t].result = Response(Log(t)[i].n)

C7_Witness ==
    \E t \in FetchCalls :
        /\ task[t].pc = "done"
        /\ task[t].result = Response(Unauthorized)
        /\ Cardinality(Attempts(t)) = 2

\* C8: the expiry written is the completion time plus (expires_in - 60) seconds,
\* expires_in being the response's value, and 3600 only when the response has none.
C8_ExpiryFromExpiresIn ==
    granted.tok # Null =>
        tokenCache.expiresAt =
            granted.at
            + ((IF granted.expires_in = Null THEN DefaultExpiresIn
                ELSE granted.expires_in[1]) - BufferSeconds) * MsPerSecond

\* C9: whenever the cache holds a token, expiresAt is at least 60 seconds before
\* the expiry the server stated for it (the completion time plus expires_in).
C9_SixtySecondsEarly ==
    (tokenCache.accessToken # Null /\ granted.expires_in # Null) =>
        tokenCache.expiresAt + BufferSeconds * MsPerSecond
            <= granted.at + granted.expires_in[1] * MsPerSecond

\* C10: with a credential missing every refreshAccessToken call throws the
\* configuration error, nothing is sent to the token endpoint and the cache
\* stays as it was, on every call (a create request whose body is rejected
\* makes no such call).
C10_MissingCredentials ==
    ~CredsConfigured =>
        /\ tokenCache = EmptyCache
        /\ issued = 0
        /\ \A t \in Tasks :
              /\ task[t].pc \in {"idle", "req_body", "failed"}
              /\ task[t].pc = "failed" =>
                    \/ task[t].result = Thrown("config", 0)
                    \/ task[t].kind = "create" /\ task[t].result = Thrown("request", 0)
        /\ \A t \in Observed :
              /\ Events(t, "exchange_sent") = {}
              /\ Log(t) # <<>> => /\ Log(t)[1].ev = "refresh_call"
                                  /\ task[t].pc = "failed"

\* the second call has failed like the first
C10_Witness ==
    /\ ~CredsConfigured
    /\ calls = 2
    /\ \E t \in Observed : task[t].pc = "failed" /\ Len(Log(t)) = 2

\* C11: a refresh whose token response has a non-success status throws an
\* error carrying that status and the response's text; one whose success
\* response is a JSON text with no access_token throws the protocol error; in
\* both cases the call ends there, with no token and no request to the Google
\* API.
C11_RefreshErrors ==
    \A t \in Observed : \A i \in Events(t, "refresh_fail") :
        Log(t)[i].n # 0 =>
            /\ i = Len(Log(t))
            /\ task[t].pc = "failed"
            /\ task[t].token = Null
            /\ task[t].result.what = "error"
            /\ ~Ok(Log(t)[i].n) =>
                  /\ task[t].result.err = "upstream"
                  /\ task[t].result.status = Log(t)[i].n
                  /\ task[t].result.body = Log(t)[i].body
            /\ (Ok(Log(t)[i].n) /\ Log(t)[i].body # NotJson) =>
                  task[t].result = Thrown("protocol", 0)

\* C12: in every state the cache is either the initial one (no refresh has
\* succeeded) or exactly what the refresh that completed last wrote: its token
\* and the expiry computed from that same response, also when other refreshes
\* were in flight with it and completed before it.
C12_LastWriteWins ==
    /\ issued = 0 => tokenCache = EmptyCache
    /\ issued > 0 =>
          /\ granted.tok = <<issued>>
          /\ tokenCache.accessToken = granted.tok
          /\ tokenCache.expiresAt = ExpiresAt(granted.at, ExpiresIn(granted.expires_in))

\* two refreshes were in flight together and both have completed: the observed
\* call's token 1 was still cached and usable when its response came, so the
\* request that brought token 2 had been sent before token 1 was written
C12_Witness ==
    /\ now = 0
    /\ issued = 2
    /\ InFlight = {}
    /\ tokenCache.accessToken = <<2>>
    /\ \E t \in Observed :
          /\ \E i \in Events(t, "refresh_ok") : Log(t)[i].tok = <<1>>
          /\ \E i \in Events(t, "response") : Log(t)[i].tok = <<1>> /\ Log(t)[i].f

\* C13: a call that finds no usable token sends its own request to the token
\* endpoint however many requests of other calls are already in flight, so the
\* number in flight grows by one with each such call and reaches the number of
\* concurrent tasks.
C13_RefreshesNotCoalesced ==
    [][\A t \in Tasks :
          (/\ CallsGetAccessToken(t)
           /\ CredsConfigured
           /\ ~CacheUsable(tokenCache)) =>
              /\ t \notin InFlight
              /\ InFlight' = InFlight \cup {t}
              /\ Cardinality(InFlight') = Cardinality(InFlight) + 1]_vars

\* every task has its own request in flight and none has completed
C13_Witness ==
    /\ InFlight = Tasks
    /\ Cardinality(InFlight) = 2
    /\ issued = 0
    /\ tokenCache = EmptyCache
    /\ \A t \in Observed :
          /\ Len(Log(t)) = 2
          /\ Log(t)[2].ev = "exchange_sent"

\* C14: whichever handler made the call (list, tabs or create), a 401 to its
\* first request is followed by a call of refreshAccessToken and by one retried
\* request before the handler has a response to report.
C14_AllCallsThroughFetcher ==
    \A t \in Observed : \A i \in Events(t, "response") :
        (Log(t)[i].n = Unauthorized /\ Between(t, "attempt", 0, i - 1) = {}) =>
            /\ i < Len(Log(t))
            /\ Log(t)[i + 1].ev = "refresh_call"
            /\ Log(t)[i + 1].f
            /\ task[t].pc = "done" => Cardinality({j \in Attempts(t) : j > i}) = 1

\* C15: a step changes the cache only if it is the successful completion of a
\* task's token request, and then the token and the expiry are both those of
\* that response; every other step (a cache hit, a request to or a response
\* from the Google API, a refresh that throws) leaves both fields as they were.
C15_CacheWrittenOnlyOnSuccess ==
    [][/\ tokenCache' # tokenCache =>
             /\ issued' = issued + 1
             /\ \E t \in InFlight : task'[t] # task[t]
             /\ tokenCache'.accessToken = granted'.tok
             /\ tokenCache'.expiresAt = ExpiresAt(now, ExpiresIn(granted'.expires_in))
       /\ issued' = issued => tokenCache' = tokenCache]_vars

\* a refresh forced after a 401 has failed on a non-success response while the
\* cache held the token of this call's first refresh, and the cache still does
C15_Witness ==
    /\ issued = 1
    /\ tokenCache.accessToken = <<1>>
    /\ \E t \in FetchCalls :
          /\ task[t].pc = "failed"
          /\ \E i \in Events(t, "refresh_ok") : Log(t)[i].tok = <<1>>
          /\ Log(t)[Len(Log(t))].ev = "refresh_fail"
          /\ Log(t)[Len(Log(t))].n = 400
          /\ Log(t)[Len(Log(t))].f

\* C16: when a refresh of a fetchGoogle call fails (before the first request or
\* after a 401) or a request to the Google API fails in transport, the call
\* fails there with that error: the configuration error when a credential is
\* missing, the transport error, the upstream error with the response's status
\* and text, the protocol error, the parse error of a body that is not JSON or
\* the type error of a null body; no request follows and no response, the
\* earlier 401 included, is returned.
C16_ErrorsPropagate ==
    \A t \in FetchCalls :
        \A i \in Events(t, "refresh_fail") \cup Events(t, "api_fail") :
            /\ i = Len(Log(t))
            /\ task[t].pc = "failed"
            /\ task[t].result =
                  (CASE Log(t)[i].ev = "api_fail" -> Thrown("transport", 0)
                     [] Log(t)[i].ev = "refresh_fail" /\ Log(t)[i].n = 0 ->
                           IF CredsConfigured THEN Thrown("transport", 0)
                           ELSE Thrown("config", 0)
                     [] Log(t)[i].ev = "refresh_fail" /\ Log(t)[i].n # 0 ->
                           IF ~Ok(Log(t)[i].n)
                           THEN UpstreamError(Log(t)[i].n, Log(t)[i].body)
                           ELSE IF Log(t)[i].body = NotJson THEN Thrown("syntax", 0)
                           ELSE IF Log(t)[i].body = JsonNull THEN Thrown("type", 0)
                           ELSE Thrown("protocol", 0))

\* the refresh made after a 401 has failed in transport and the call has
\* failed with it
C16_Witness ==
    \E t \in FetchCalls :
        /\ task[t].pc = "failed"
        /\ task[t].result = Thrown("transport", 0)
        /\ Retried401(t) # {}
        /\ Log(t)[Len(Log(t))].ev = "refresh_fail"
        /\ Log(t)[Len(Log(t))].f
        /\ Log(t)[Len(Log(t)) - 1].ev = "exchange_sent"

\* C17: the request of a fetchGoogle call that is in flight has the URL, the
\* method, the body and the headers the call was given, but for its
\* Authorization header, which is Bearer followed by the token obtained just
\* before it was sent; the URL and options of a call stay the same from its
\* first request to its retried one.
C17_RequestUnchanged ==
    /\ [](\A t \in Tasks :
            (task[t].kind = "fetchGoogle" /\ task[t].pc = "api_wait") =>
                /\ task[t].url \in {Url(h) : h \in FetchHandlers}
                /\ task[t].req.url = task[t].url
                /\ task[t].req.method = task[t].opts.method
                /\ task[t].req.body = task[t].opts.body
                /\ DOMAIN task[t].req.headers
                      = DOMAIN task[t].opts.headers \cup {"authorization"}
                /\ \A k \in DOMAIN task[t].opts.headers \ {"authorization"} :
                      task[t].req.headers[k] = task[t].opts.headers[k]
                /\ task[t].req.headers["authorization"] = <<"Bearer">> \o task[t].token
                /\ t \in Observed =>
                      LET j == Len(Log(t)) IN
                      /\ Log(t)[j].ev = "attempt"
                      /\ Log(t)[j].tok = task[t].token
                      /\ Log(t)[j - 1].ev \in {"get_hit", "refresh_hit", "refresh_ok"}
                      /\ ~Log(t)[j - 1].f
                      /\ Log(t)[j - 1].tok = task[t].token)
    /\ [][\A t \in Tasks :
            (/\ task[t].pc \in {"rt_fetch", "rt_body", "api_wait"}
             /\ task'[t].pc \in {"rt_fetch", "rt_body", "api_wait"}) =>
                /\ task'[t].url = task[t].url
                /\ task'[t].opts = task[t].opts]_vars

\* the retried request for the tabs of a spreadsheet is in flight with the
\* token of the second exchange
C17_Witness ==
    \E t \in FetchCalls :
        /\ task[t].pc = "api_wait"
        /\ Cardinality(Attempts(t)) = 2
        /\ task[t].req = [url |-> "v4/spreadsheets/id", method |-> Null, body |-> Null,
                           headers |-> [k \in {"authorization"} |-> <<"Bearer", 2>>]]

\* C18: a cache that is unexpired (now < expiresAt) holds a token; the token
\* that getAccessToken or refreshAccessToken returns (from the cache, by the
\* early return that tests the expiry alone, or from a token response) is never
\* absent, and no request to the Google API is in flight with an absent token.
C18_UnexpiredCacheHoldsToken ==
    /\ now < tokenCache.expiresAt => tokenCache.accessToken # Null
    /\ \A t \in Tasks :
          task[t].pc = "api_wait" =>
              /\ task[t].token # Null
              /\ task[t].req.headers["authorization"] # <<"Bearer">>
    /\ \A t \in Observed :
          \A i \in Events(t, "get_hit") \cup Events(t, "refresh_hit")
                    \cup Events(t, "refresh_ok") \cup Events(t, "attempt") :
              Log(t)[i].tok # Null

\* refreshAccessToken has returned the token of an unexpired cache by its
\* early return and the retried request carries it
C18_Witness ==
    \E t \in Observed :
        /\ now < tokenCache.expiresAt
        /\ \E i \in Events(t, "refresh_hit") : Log(t)[i].tok = tokenCache.accessToken
        /\ task[t].pc = "api_wait"
        /\ task[t].req.headers["authorization"] = <<"Bearer">> \o tokenCache.accessToken
        /\ \E u \in Tasks : task[u].pc = "failed" /\ task[u].result.err = "protocol"

\* C19: with every request eventually completed, a fetchGoogle call that
\* awaits the token endpoint or the Google API eventually returns a response or
\* fails, whatever the other calls do meanwhile; and a call makes the recursive
\* call at most once, with retry disallowed from then on.
C19_FetchGoogleTerminates ==
    /\ \A t \in Tasks :
          (task[t].kind = "fetchGoogle" /\ task[t].pc \in {"rt_fetch", "rt_body", "api_wait"})
              ~> (task[t].pc \in {"done", "failed"})
    /\ [](\A t \in FetchCalls :
            LET forced == {i \in Events(t, "refresh_call") : Log(t)[i].f} IN
            /\ Cardinality(forced) <= 1
            /\ \A i \in forced : \A j \in Attempts(t) : j > i => ~Log(t)[j].f)

\* both calls have ended, the observed one by returning the response to its
\* retried request, sent after a second exchange
C19_Witness ==
    /\ \A t \in Tasks : task[t].pc \in {"done", "failed"}
    /\ \E t \in FetchCalls :
          /\ task[t].pc = "done"
          /\ \E i \in Events(t, "exchange_sent") : Log(t)[i].f
          /\ Cardinality(Attempts(t)) = 2

====
